---------------------------- MODULE Spec2Model ----------------------------
(***************************************************************************)
(* Model of src/wii-remote-driver.c: the HID raw-event decoder, the        *)
(* circular buffer behind /dev/wii_remote, the connection/battery state    *)
(* and the status-request ioctl.                                           *)
(*                                                                         *)
(* Bytes are integers 0..255 (ASCII codes for text).  Every kernel entry   *)
(* point is a call made by a thread; a call advances one shared-memory     *)
(* access or one mutex operation per step, so that calls interleave the    *)
(* way the kernel can interleave them.                                     *)
(*                                                                         *)
(*   Spec     all interleavings of the calls of NThreads threads           *)
(*   ChanSpec the calls on the channel: wii_raw_event and device_read      *)
(*   DevSpec  the calls on the device state: all but device_read           *)
(*   SeqSpec  the same steps, one call at a time (a call runs to its       *)
(*            return before the next one starts)                           *)
(*   LiveSpec wii_raw_event, device_read and device_ioctl in every         *)
(*            interleaving, device attached or not, under fair scheduling  *)
(*   ByteSpec circ_buffer_write called with one byte at a time, among      *)
(*            device_read calls, until the ring has been filled            *)
(*   SpecFmt  the decode/format step of wii_raw_event applied once to      *)
(*            every report of AllReports                                   *)
(***************************************************************************)
EXTENDS Integers, Sequences, FiniteSets, TLC

(***************************************************************************)
(* Bounds of the model.                                                    *)
(***************************************************************************)
\* Capacity of the ring.  The driver is built with 1024 (line 31); the model
\* keeps the same arithmetic with a capacity small enough to fill.
CIRC_BUFFER_SIZE == 13

\* Number of threads that can be inside the driver at the same time.
NThreads == 2

\* Total number of calls made in one behaviour.
MaxCalls == 3

(***************************************************************************)
(* Program constants.                                                      *)
(***************************************************************************)
MAPPING_OUTPUT_SIZE == 256
BATTERY_OUTPUT_SIZE == 64
STATUS_REPORT_ID == 32
BTN_SHORT_SIZE == 3
ENODEV == 19
EFAULT == 14
ENOTTY == 25
EIO == 5
BATTERY_UNKNOWN == 0 - 1
NULL == 0
WIIMOTE_IOCTL_REQUEST_STATUS == 1
OTHER_IOCTL == 2
StatusRequestFrame == <<21, 0>>

Min(a, b) == IF a < b THEN a ELSE b

Take(s, n) == SubSeq(s, 1, Min(n, Len(s)))

(***************************************************************************)
(* Text.  The format strings of the source, as ASCII codes.                *)
(***************************************************************************)
STR_Report == <<82,101,112,111,114,116,58,32,73,68,61>>            \* "Report: ID="
STR_CommaSpace == <<44,32>>                                        \* ", "
STR_Dpad_Right == <<68,112,97,100,95,82,105,103,104,116,32>>       \* "Dpad_Right "
STR_Dpad_Left == <<68,112,97,100,95,76,101,102,116,32>>            \* "Dpad_Left "
STR_Dpad_Down == <<68,112,97,100,95,68,111,119,110,32>>            \* "Dpad_Down "
STR_Dpad_Up == <<68,112,97,100,95,85,112,32>>                      \* "Dpad_Up "
STR_Plus == <<80,108,117,115,32>>                                  \* "Plus "
STR_Minus == <<77,105,110,117,115,32>>                             \* "Minus "
STR_Home == <<72,111,109,101,32>>                                  \* "Home "
STR_A == <<65,32>>                                                 \* "A "
STR_B == <<66,32>>                                                 \* "B "
STR_1 == <<49,32>>                                                 \* "1 "
STR_2 == <<50,32>>                                                 \* "2 "
STR_NoButtons == <<78,111,32,98,117,116,116,111,110,115,32,112,114,101,115,115,101,100>>  \* "No buttons pressed"
STR_Battery == <<66,97,116,116,101,114,121,58,32>>                 \* "Battery: "
STR_Newline == <<10>>                                              \* "\n"

\* %u / %d of a non-negative integer: its decimal digits, most significant first.
RECURSIVE FormatDecimal(_)
FormatDecimal(n) ==
    IF n < 10 THEN <<48 + n>>
    ELSE FormatDecimal(n \div 10) \o <<48 + (n % 10)>>

\* a & b on non-negative integers.
RECURSIVE BitAnd(_, _)
BitAnd(a, b) ==
    IF a = 0 \/ b = 0 THEN 0
    ELSE (a % 2) * (b % 2) + 2 * BitAnd(a \div 2, b \div 2)

\* len += snprintf(buf + len, size - len, s): st = [buf, len] where buf holds
\* the characters before the terminating NUL.  snprintf stores at most
\* (size - len) - 1 characters and returns the length of s.
Snprintf(st, size, s) ==
    LET room == size - st.len
        kept == IF room > 0 THEN Take(s, room - 1) ELSE <<>>
    IN  [buf |-> Take(st.buf, st.len) \o kept, len |-> st.len + Len(s)]

\* if (byte & mask) len += snprintf(..., name)
AppendIfSet(st, byte, mask, name) ==
    IF BitAnd(byte, mask) # 0 THEN Snprintf(st, MAPPING_OUTPUT_SIZE, name) ELSE st

\* Lines 100-101: the header.
MappingHeader(report_id) ==
    Snprintf([buf |-> <<>>, len |-> 0], MAPPING_OUTPUT_SIZE,
             STR_Report \o FormatDecimal(report_id) \o STR_CommaSpace)

MappingButtons_upBeforeDown(st, b1, b2) ==
    LET s1 == AppendIfSet(st, b1, 1, STR_Dpad_Right)
        s2 == AppendIfSet(s1, b1, 2, STR_Dpad_Left)
        s3 == AppendIfSet(s2, b1, 8, STR_Dpad_Up)
        s4 == AppendIfSet(s3, b1, 4, STR_Dpad_Down)
        s5 == AppendIfSet(s4, b1, 16, STR_Plus)
        s6 == AppendIfSet(s5, b1, 32, STR_Minus)
        s7 == AppendIfSet(s6, b1, 64, STR_Home)
        s8 == AppendIfSet(s7, b2, 1, STR_A)
        s9 == AppendIfSet(s8, b2, 2, STR_B)
        s10 == AppendIfSet(s9, b2, 4, STR_1)
    IN  AppendIfSet(s10, b2, 8, STR_2)

\* Lines 103-125: the eleven tests, in source order.
MappingButtons(st, b1, b2) ==
    LET s1 == AppendIfSet(st, b1, 1, STR_Dpad_Right)
        s2 == AppendIfSet(s1, b1, 2, STR_Dpad_Left)
        s3 == AppendIfSet(s2, b1, 4, STR_Dpad_Down)
        s4 == AppendIfSet(s3, b1, 8, STR_Dpad_Up)
        s5 == AppendIfSet(s4, b1, 16, STR_Plus)
        s6 == AppendIfSet(s5, b1, 32, STR_Minus)
        s7 == AppendIfSet(s6, b1, 64, STR_Home)
        s8 == AppendIfSet(s7, b2, 1, STR_A)
        s9 == AppendIfSet(s8, b2, 2, STR_B)
        s10 == AppendIfSet(s9, b2, 4, STR_1)
    IN  AppendIfSet(s10, b2, 8, STR_2)

\* Lines 127-128: the fallback text, taken when nothing was formatted.
MappingNoButtons(st) ==
    IF st.len = 0
    THEN Snprintf([buf |-> <<>>, len |-> 0], MAPPING_OUTPUT_SIZE, STR_NoButtons)
    ELSE st

MappingNewline_limit70(st) ==
    IF st.len < 70
    THEN [buf |-> Take(st.buf, st.len) \o STR_Newline, len |-> st.len + 1]
    ELSE st

\* Lines 130-133: the trailing newline.
MappingNewline(st) ==
    IF st.len < MAPPING_OUTPUT_SIZE - 1
    THEN [buf |-> Take(st.buf, st.len) \o STR_Newline, len |-> st.len + 1]
    ELSE st

\* The bytes handed to circ_buffer_write(buf, len): the first len bytes of the
\* array (bytes past the formatted text read as NUL).
EntryBytes(st) ==
    [k \in 1..st.len |-> IF k <= Len(st.buf) THEN st.buf[k] ELSE 0]

\* perform_input_mapping, lines 96-135, for a report of size >= 3: the entry
\* passed to circ_buffer_write.  data is 1-indexed: data[1] is the report id.
perform_input_mapping(data) ==
    EntryBytes(MappingNewline(MappingNoButtons(
        MappingButtons(MappingHeader(data[1]), data[2], data[3]))))

\* Lines 246-247: snprintf(battery_output, 64, "Battery: %d\n", data[1]).
BatteryEntry(level) ==
    EntryBytes(Snprintf([buf |-> <<>>, len |-> 0], BATTERY_OUTPUT_SIZE,
                        STR_Battery \o FormatDecimal(level) \o STR_Newline))

Classify_lengthFirst(data) ==
    IF Len(data) >= BTN_SHORT_SIZE THEN "buttons"
    ELSE IF Len(data) > 0 /\ data[1] = STATUS_REPORT_ID
         THEN IF Len(data) >= 2 THEN "status" ELSE "status_short"
         ELSE "too_short"

\* The branch wii_raw_event takes (lines 243-254, 91-94).
Classify(data) ==
    IF Len(data) > 0 /\ data[1] = STATUS_REPORT_ID
    THEN IF Len(data) >= 2 THEN "status" ELSE "status_short"
    ELSE IF Len(data) < BTN_SHORT_SIZE THEN "too_short" ELSE "buttons"

\* The entry a report makes the driver offer to the channel (<<>>: none).
FormattedEntry(data) ==
    CASE Classify(data) = "status" -> BatteryEntry(data[2])
      [] Classify(data) = "buttons" -> perform_input_mapping(data)
      [] OTHER -> <<>>

(***************************************************************************)
(* Inputs.                                                                 *)
(***************************************************************************)
Threads == 1..NThreads
NoOwner == 0
HDEV == 1

\* Reports delivered to wii_raw_event in Spec and ChanSpec: a status report
\* whose entry fits the empty ring and a button report whose entry does not.
ConcReports == { <<32, 7>>, <<49, 1, 0>> }

\* Reports delivered to wii_raw_event in DevSpec.
StatusReports == { <<32, 7>> }

\* Reports delivered to wii_raw_event in SeqSpec: empty, too short, status
\* reports of length 1, 2 and 3, button reports of length 3 and 4.
Reports ==
    { <<>>, <<32>>, <<49>>, <<49, 1>>,
      <<32, 7>>, <<32, 90>>, <<32, 255, 1>>,
      <<49, 1, 0>>, <<49, 0, 0>>, <<48, 128, 240, 9>> }

\* Report ids under which SpecFmt formats every pair of button bytes: two
\* and three decimal digits.
FmtReportIds == {49, 255}

\* Reports formatted in SpecFmt: every pair of button bytes under each id of
\* ids, every battery level, and the short reports.
AllReports(ids) ==
    { <<id, b1, b2>> : id \in ids, b1 \in 0..255, b2 \in 0..255 }
    \cup { <<id, b1, b2>> : id \in {0, 7}, b1 \in {0, 1, 127, 128, 255}, b2 \in {0, 8, 15, 16, 255} }
    \cup { <<id, b1, b2>> : id \in 0..255, b1 \in {0, 255}, b2 \in {0, 255} }
    \cup { <<49, b1, b2, 7>> : b1 \in {0, 1, 128}, b2 \in {0, 8, 16} }
    \cup { <<32, lv>> : lv \in 0..255 }
    \cup { <<32, lv, x>> : lv \in {0, 90, 255}, x \in {0, 1} }
    \cup { <<>>, <<32>>, <<49>>, <<49, 1>>, <<0, 0>> }

\* Arguments of device_read: <<count, fault_at>>, where fault_at = 0 when
\* every copy_to_user succeeds and k when the k-th copy of the call faults.
ReadArgs == { <<3, 0>>, <<CIRC_BUFFER_SIZE + 1, 0>>, <<CIRC_BUFFER_SIZE + 1, 2>> }

\* Entries given to circ_buffer_write in ByteSpec: one byte each.
SingleByteEntries == { <<65>> }

\* Arguments of device_read in ByteSpec: two bytes at a time, no fault.
ByteReadArgs == { <<2, 0>> }

\* Arguments of device_read in LiveSpec: a drain of the whole ring, without
\* and with a fault.
LiveReadArgs == { <<CIRC_BUFFER_SIZE + 1, 0>>, <<CIRC_BUFFER_SIZE + 1, 2>> }

\* hid_hw_raw_request: the number of bytes sent, or a transport error.
TransportResults == {2, 0 - EIO}

\* hid_parse / hid_hw_start in wii_probe.
ProbeOutcomes == {"ok", "parse_fail", "start_fail"}

(***************************************************************************)
(* State.                                                                  *)
(***************************************************************************)
VARIABLES
    circ_buffer,        \* line 37: [0..CIRC_BUFFER_SIZE-1 -> byte]
    head,               \* line 38
    tail,               \* line 38
    circ_mutex,         \* line 39: the owner, or NoOwner
    wii_hid_dev,        \* line 42: NULL or the retained handle
    wii_connected,      \* line 45
    wii_last_battery,   \* line 46
    pc,                 \* per thread: where its call stands
    loc,                \* per thread: arguments, locals and outcome of its call
    calls_left,         \* calls the environment may still make
    accepted,           \* history: bytes stored by writes, in storing order, each
                        \* with the call that stored it and whether it is a byte
                        \* of a "Battery: ..." entry
    delivered,          \* history: bytes copied to consumers, in copying order
    slot_idx,           \* history: which accepted byte each slot holds
    nlocks,             \* history: critical sections entered
    sent,               \* history: frames handed to the transport
    last_transition     \* history: last completed wii_probe/wii_remove

vars == <<circ_buffer, head, tail, circ_mutex, wii_hid_dev, wii_connected,
          wii_last_battery, pc, loc, calls_left, accepted, delivered, slot_idx,
          nlocks, sent, last_transition>>

channelVars == <<circ_buffer, head, tail, circ_mutex, accepted, delivered, slot_idx, nlocks>>
deviceVars == <<wii_hid_dev, wii_connected, wii_last_battery, sent, last_transition>>

\* The channel as a call finds it when it has taken the mutex.
ChannelSnapshot ==
    [head |-> head, tail |-> tail, circ_buffer |-> circ_buffer,
     naccepted |-> Len(accepted), ndelivered |-> Len(delivered)]

\* The device state as a call finds it when it starts.
DeviceSnapshot ==
    [wii_hid_dev |-> wii_hid_dev, wii_connected |-> wii_connected,
     wii_last_battery |-> wii_last_battery,
     last_transition |-> last_transition, nsent |-> Len(sent)]

NoSnapshot == [head |-> 0]

IdleLocals ==
    [op |-> "none", cid |-> 0, data |-> <<>>, entry |-> <<>>, i |-> 0,
     count |-> 0, bytes_copied |-> 0, fault_at |-> 0, ubuf |-> <<>>,
     cmd |-> 0, hdev |-> NULL, ret |-> 0, conn |-> 0, batt |-> 0,
     printk |-> <<>>, seen |-> {}, pre |-> NoSnapshot, atlock |-> NoSnapshot]

\* The driver as module load leaves it (lines 37-46).
Loaded ==
    /\ circ_buffer = [k \in 0..(CIRC_BUFFER_SIZE - 1) |-> 0]
    /\ head = 0
    /\ tail = 0
    /\ circ_mutex = NoOwner
    /\ wii_hid_dev = NULL
    /\ wii_connected = 0
    /\ wii_last_battery = BATTERY_UNKNOWN
    /\ pc = [t \in Threads |-> "idle"]
    /\ loc = [t \in Threads |-> IdleLocals]
    /\ accepted = <<>>
    /\ delivered = <<>>
    /\ slot_idx = [k \in 0..(CIRC_BUFFER_SIZE - 1) |-> 0]
    /\ nlocks = 0
    /\ sent = <<>>
    /\ last_transition = "none"

Init == Loaded /\ calls_left = MaxCalls

Goto(t, label) == pc' = [pc EXCEPT ![t] = label]

\* A thread enters the driver: a new call with its own locals.  Idle threads
\* are interchangeable, so the call is given to the first idle thread.
Enter(t, label) ==
    /\ pc[t] = "idle"
    /\ \A u \in Threads : u < t => pc[u] # "idle"
    /\ calls_left > 0
    /\ calls_left' = calls_left - 1
    /\ Goto(t, label)

NewLocals(op) ==
    [IdleLocals EXCEPT !.op = op,
                       !.pre = IF op \in {"raw_event", "ioctl"} THEN DeviceSnapshot
                               ELSE NoSnapshot]

\* History kept for each running wii_proc_show call: the pairs
\* <<wii_connected, wii_last_battery>> the state has held since the call
\* started.  A store to either variable adds the new pair.
Observed(connected, battery) ==
    [u \in Threads |->
        IF loc[u].op = "proc_show"
        THEN [loc[u] EXCEPT !.seen = @ \cup {<<connected, battery>>}]
        ELSE loc[u]]

(***************************************************************************)
(* mutex_lock / mutex_unlock on circ_mutex.                                *)
(***************************************************************************)
mutex_available_always(t) == TRUE

mutex_available(t) == circ_mutex = NoOwner

mutex_lock(t, label) ==
    /\ mutex_available(t)
    /\ circ_mutex' = t
    /\ nlocks' = nlocks + 1
    /\ loc' = [loc EXCEPT ![t].atlock = ChannelSnapshot, ![t].cid = nlocks + 1]
    /\ Goto(t, label)

mutex_unlocked_keeps(t) == circ_mutex

mutex_unlocked(t) == IF circ_mutex = t THEN NoOwner ELSE circ_mutex

(***************************************************************************)
(* wii_raw_event, lines 235-256, with perform_input_mapping (86-136) and   *)
(* circ_buffer_write (50-64).                                              *)
(***************************************************************************)
RawEventDecode_marksConnected(t, data) ==
    /\ Enter(t, CASE Classify(data) = "status" -> "ev_battery"
                  [] Classify(data) = "buttons" -> "cw_lock"
                  [] OTHER -> "ret")
    /\ loc' = [loc EXCEPT ![t] = [NewLocals("raw_event") EXCEPT
                                     !.data = data, !.entry = FormattedEntry(data)]]
    /\ wii_connected' = 1
    /\ UNCHANGED <<channelVars, wii_hid_dev, wii_last_battery, sent, last_transition>>

\* Lines 243-247 and 86-133: classify the report and format the entry; both
\* touch only the arguments and locals.
RawEventDecode(t, data) ==
    /\ Enter(t, CASE Classify(data) = "status" -> "ev_battery"
                  [] Classify(data) = "buttons" -> "cw_lock"
                  [] OTHER -> "ret")
    /\ loc' = [loc EXCEPT ![t] = [NewLocals("raw_event") EXCEPT
                                     !.data = data, !.entry = FormattedEntry(data)]]
    /\ UNCHANGED <<channelVars, deviceVars>>

wii_raw_event(t, reports) == pc[t] = "idle" /\ \E data \in reports : RawEventDecode(t, data)

StoreBattery_notStored(t) ==
    /\ pc[t] = "ev_battery"
    /\ Goto(t, "cw_lock")
    /\ UNCHANGED <<channelVars, deviceVars, loc, calls_left>>

\* Line 249: wii_last_battery = data[1].
StoreBattery(t) ==
    /\ pc[t] = "ev_battery"
    /\ wii_last_battery' = loc[t].data[2]
    /\ loc' = Observed(wii_connected, loc[t].data[2])
    /\ Goto(t, "cw_lock")
    /\ UNCHANGED <<channelVars, wii_hid_dev, wii_connected, sent, last_transition, calls_left>>

\* Line 53.
WriteLock(t) ==
    /\ pc[t] = "cw_lock"
    /\ mutex_lock(t, "cw_loop")
    /\ UNCHANGED <<circ_buffer, head, tail, accepted, delivered, slot_idx, deviceVars, calls_left>>

\* Lines 50-52: circ_buffer_write(data, len) called on its own, with an entry
\* of entries as data and its length as len.
circ_buffer_write(t, entries) ==
    /\ pc[t] = "idle"
    /\ \E e \in entries :
          /\ Enter(t, "cw_lock")
          /\ loc' = [loc EXCEPT ![t] = [NewLocals("write") EXCEPT !.entry = e]]
    /\ UNCHANGED <<channelVars, deviceVars>>

\* (head + 1) % CIRC_BUFFER_SIZE, line 55.
NextHead(h) == (h + 1) % CIRC_BUFFER_SIZE

\* Line 56: if (next == tail), with next = (head + 1) % CIRC_BUFFER_SIZE.
BufferFull_never == FALSE

BufferFull == NextHead(head) = tail

\* Line 57: the message circ_buffer_write logs when it breaks out of the loop;
\* the format has no argument.  The function returns void (line 50).
BufferFullWarning == [fmt |-> "circular buffer full, dropping data\n", args |-> <<>>]

\* Lines 54-62: one evaluation of the loop condition and, when it holds, one
\* iteration of the body; when the ring is full, the warning and the break.
WriteLoop(t) ==
    /\ pc[t] = "cw_loop"
    /\ IF loc[t].i < Len(loc[t].entry) /\ ~BufferFull
       THEN /\ circ_buffer' = [circ_buffer EXCEPT ![head] = loc[t].entry[loc[t].i + 1]]
            /\ head' = NextHead(head)
            /\ loc' = [loc EXCEPT ![t].i = @ + 1]
            /\ accepted' = Append(accepted, [b |-> loc[t].entry[loc[t].i + 1],
                                             cid |-> loc[t].cid,
                                             battery |-> Classify(loc[t].data) = "status"])
            /\ slot_idx' = [slot_idx EXCEPT ![head] = Len(accepted) + 1]
            /\ UNCHANGED pc
       ELSE /\ Goto(t, "cw_unlock")
            /\ loc' = [loc EXCEPT ![t].printk =
                          IF loc[t].i < Len(loc[t].entry)
                          THEN Append(@, BufferFullWarning) ELSE @]
            /\ UNCHANGED <<circ_buffer, head, accepted, slot_idx>>
    /\ UNCHANGED <<tail, circ_mutex, delivered, nlocks, deviceVars, calls_left>>

\* Line 63.
WriteUnlock(t) ==
    /\ pc[t] = "cw_unlock"
    /\ circ_mutex' = mutex_unlocked(t)
    /\ loc' = [loc EXCEPT ![t].atlock = NoSnapshot]
    /\ Goto(t, "ret")
    /\ UNCHANGED <<circ_buffer, head, tail, accepted, delivered, slot_idx, nlocks, deviceVars, calls_left>>

\* The call returns to its caller.
Return(t) ==
    /\ pc[t] = "ret"
    /\ Goto(t, "idle")
    /\ loc' = [loc EXCEPT ![t] = IdleLocals]
    /\ UNCHANGED <<channelVars, deviceVars, calls_left>>

(***************************************************************************)
(* device_read, lines 149-164.                                             *)
(***************************************************************************)
\* Lines 149-151: the call, with <<count, fault_at>> drawn from argset.
device_read_args(t, argset) ==
    \E args \in argset :
        /\ Enter(t, "rd_lock")
        /\ loc' = [loc EXCEPT ![t] = [NewLocals("read") EXCEPT
                                         !.count = args[1], !.fault_at = args[2]]]
        /\ UNCHANGED <<channelVars, deviceVars>>

device_read(t) == device_read_args(t, ReadArgs)

\* Line 153.
ReadLock(t) ==
    /\ pc[t] = "rd_lock"
    /\ mutex_lock(t, "rd_loop")
    /\ UNCHANGED <<circ_buffer, head, tail, accepted, delivered, slot_idx, deviceVars, calls_left>>

NextTail_skip(tl) == (tl + 2) % CIRC_BUFFER_SIZE

\* (tail + 1) % CIRC_BUFFER_SIZE, line 159.
NextTail(tl) == (tl + 1) % CIRC_BUFFER_SIZE

ReadLoop_faultSkipsByte(t) ==
    /\ pc[t] = "rd_loop"
    /\ IF loc[t].bytes_copied < loc[t].count /\ tail # head
       THEN IF loc[t].fault_at = loc[t].bytes_copied + 1
            THEN /\ circ_mutex' = mutex_unlocked(t)
                 /\ loc' = [loc EXCEPT ![t].ret = 0 - EFAULT, ![t].atlock = NoSnapshot]
                 /\ Goto(t, "ret")
                 /\ tail' = NextTail(tail)
                 /\ UNCHANGED delivered
            ELSE /\ tail' = NextTail(tail)
                 /\ loc' = [loc EXCEPT ![t].bytes_copied = @ + 1,
                                       ![t].ubuf = Append(@, circ_buffer[tail])]
                 /\ delivered' = Append(delivered,
                                        [b |-> circ_buffer[tail], cid |-> loc[t].cid,
                                         idx |-> slot_idx[tail]])
                 /\ UNCHANGED <<pc, circ_mutex>>
       ELSE /\ Goto(t, "rd_unlock")
            /\ UNCHANGED <<tail, delivered, loc, circ_mutex>>
    /\ UNCHANGED <<circ_buffer, head, accepted, slot_idx, nlocks, deviceVars, calls_left>>

\* Lines 154-161: one evaluation of the loop condition and, when it holds,
\* one copy_to_user: a fault unlocks and returns -EFAULT (156-157), a
\* success advances tail (159-160).
ReadLoop(t) ==
    /\ pc[t] = "rd_loop"
    /\ IF loc[t].bytes_copied < loc[t].count /\ tail # head
       THEN IF loc[t].fault_at = loc[t].bytes_copied + 1
            THEN /\ circ_mutex' = mutex_unlocked(t)
                 /\ loc' = [loc EXCEPT ![t].ret = 0 - EFAULT, ![t].atlock = NoSnapshot]
                 /\ Goto(t, "ret")
                 /\ UNCHANGED <<tail, delivered>>
            ELSE /\ tail' = NextTail(tail)
                 /\ loc' = [loc EXCEPT ![t].bytes_copied = @ + 1,
                                       ![t].ubuf = Append(@, circ_buffer[tail])]
                 /\ delivered' = Append(delivered,
                                        [b |-> circ_buffer[tail], cid |-> loc[t].cid,
                                         idx |-> slot_idx[tail]])
                 /\ UNCHANGED <<pc, circ_mutex>>
       ELSE /\ Goto(t, "rd_unlock")
            /\ UNCHANGED <<tail, delivered, loc, circ_mutex>>
    /\ UNCHANGED <<circ_buffer, head, accepted, slot_idx, nlocks, deviceVars, calls_left>>

\* Lines 162-163.
ReadUnlock(t) ==
    /\ pc[t] = "rd_unlock"
    /\ circ_mutex' = mutex_unlocked(t)
    /\ loc' = [loc EXCEPT ![t].ret = loc[t].bytes_copied, ![t].atlock = NoSnapshot]
    /\ Goto(t, "ret")
    /\ UNCHANGED <<circ_buffer, head, tail, accepted, delivered, slot_idx, nlocks, deviceVars, calls_left>>

(***************************************************************************)
(* device_ioctl, lines 166-192.                                            *)
(***************************************************************************)
\* Lines 169-170, 188-189: the switch.
device_ioctl(t) ==
    \E cmd \in {WIIMOTE_IOCTL_REQUEST_STATUS, OTHER_IOCTL} :
        /\ Enter(t, IF cmd = WIIMOTE_IOCTL_REQUEST_STATUS THEN "io_test" ELSE "ret")
        /\ loc' = [loc EXCEPT ![t] = [NewLocals("ioctl") EXCEPT
                        !.cmd = cmd,
                        !.ret = IF cmd = WIIMOTE_IOCTL_REQUEST_STATUS THEN 0 ELSE 0 - ENOTTY]]
        /\ UNCHANGED <<channelVars, deviceVars>>

\* Line 171: if (wii_hid_dev); lines 183-185 when it is NULL.
IoctlTest(t) ==
    /\ pc[t] = "io_test"
    /\ IF wii_hid_dev # NULL
       THEN /\ loc' = [loc EXCEPT ![t].hdev = wii_hid_dev]
            /\ Goto(t, "io_send")
       ELSE /\ loc' = [loc EXCEPT ![t].ret = 0 - ENODEV]
            /\ Goto(t, "ret")
    /\ UNCHANGED <<channelVars, deviceVars, calls_left>>

IoctlSend_cachesReply(t) ==
    /\ pc[t] = "io_send"
    /\ \E arg \in {loc[t].hdev, wii_hid_dev} :
          IF arg = NULL
          THEN /\ Goto(t, "oops")
               /\ UNCHANGED <<sent, loc, wii_last_battery>>
          ELSE \E r \in TransportResults :
               /\ sent' = Append(sent, [hdev |-> arg, frame |-> StatusRequestFrame,
                                        retained |-> wii_hid_dev = arg])
               /\ loc' = [loc EXCEPT ![t].ret = r]
               /\ wii_last_battery' = IF r < 0 THEN wii_last_battery ELSE 90
               /\ Goto(t, "ret")
    /\ UNCHANGED <<channelVars, wii_hid_dev, wii_connected, last_transition, calls_left>>

\* Lines 172-182: hid_hw_raw_request(wii_hid_dev, 0x15, {0x15, 0x00}, 2, ...).
\* wii_hid_dev is a plain global read a second time with no lock held: the
\* argument is the value the test saw or the value now in memory, as the
\* compiler chose.  A NULL argument is dereferenced by the HID core.
IoctlSend(t) ==
    /\ pc[t] = "io_send"
    /\ \E arg \in {loc[t].hdev, wii_hid_dev} :
          IF arg = NULL
          THEN /\ Goto(t, "oops")
               /\ UNCHANGED <<sent, loc>>
          ELSE \E r \in TransportResults :
               /\ sent' = Append(sent, [hdev |-> arg, frame |-> StatusRequestFrame,
                                        retained |-> wii_hid_dev = arg])
               /\ loc' = [loc EXCEPT ![t].ret = r]
               /\ Goto(t, "ret")
    /\ UNCHANGED <<channelVars, wii_hid_dev, wii_connected, wii_last_battery,
                   last_transition, calls_left>>

(***************************************************************************)
(* wii_proc_show, lines 203-209.                                           *)
(***************************************************************************)
wii_proc_show(t) ==
    /\ Enter(t, "ps_connected")
    /\ loc' = [loc EXCEPT ![t] = [NewLocals("proc_show") EXCEPT
                                     !.seen = {<<wii_connected, wii_last_battery>>}]]
    /\ UNCHANGED <<channelVars, deviceVars>>

\* Line 206.
ProcShowConnected(t) ==
    /\ pc[t] = "ps_connected"
    /\ loc' = [loc EXCEPT ![t].conn = wii_connected]
    /\ Goto(t, "ps_battery")
    /\ UNCHANGED <<channelVars, deviceVars, calls_left>>

\* Line 207.
ProcShowBattery(t) ==
    /\ pc[t] = "ps_battery"
    /\ loc' = [loc EXCEPT ![t].batt = wii_last_battery]
    /\ Goto(t, "ret")
    /\ UNCHANGED <<channelVars, deviceVars, calls_left>>

(***************************************************************************)
(* wii_probe (259-275) and wii_remove (278-283).  The HID bus calls them   *)
(* for one device at a time: a transition starts when no other is running. *)
(***************************************************************************)
InTransition(t) == pc[t] \in {"pb_set_dev", "pb_set_connected", "rm_set_dev", "rm_set_connected"}

BusIdle == \A u \in Threads : ~InTransition(u)

\* Lines 263-269: hid_parse and hid_hw_start; a failure returns at once.
wii_probe(t) ==
    \E outcome \in ProbeOutcomes :
        /\ BusIdle
        /\ Enter(t, IF outcome = "ok" THEN "pb_set_dev" ELSE "ret")
        /\ loc' = [loc EXCEPT ![t] = [NewLocals("probe") EXCEPT
                        !.ret = IF outcome = "ok" THEN 0 ELSE 0 - EIO]]
        /\ UNCHANGED <<channelVars, deviceVars>>

\* Line 271.
ProbeSetDev(t) ==
    /\ pc[t] = "pb_set_dev"
    /\ wii_hid_dev' = HDEV
    /\ Goto(t, "pb_set_connected")
    /\ UNCHANGED <<channelVars, wii_connected, wii_last_battery, sent, last_transition, loc, calls_left>>

\* Lines 272-274.
ProbeSetConnected(t) ==
    /\ pc[t] = "pb_set_connected"
    /\ wii_connected' = 1
    /\ loc' = Observed(1, wii_last_battery)
    /\ last_transition' = "attach"
    /\ Goto(t, "ret")
    /\ UNCHANGED <<channelVars, wii_hid_dev, wii_last_battery, sent, calls_left>>

wii_remove(t) ==
    /\ BusIdle
    /\ Enter(t, "rm_set_dev")
    /\ loc' = [loc EXCEPT ![t] = NewLocals("remove")]
    /\ UNCHANGED <<channelVars, deviceVars>>

RemoveClearDev_keepsHandle(t) ==
    /\ pc[t] = "rm_set_dev"
    /\ Goto(t, "rm_set_connected")
    /\ UNCHANGED <<channelVars, deviceVars, loc, calls_left>>

\* Line 280.
RemoveClearDev(t) ==
    /\ pc[t] = "rm_set_dev"
    /\ wii_hid_dev' = NULL
    /\ Goto(t, "rm_set_connected")
    /\ UNCHANGED <<channelVars, wii_connected, wii_last_battery, sent, last_transition, loc, calls_left>>

\* Lines 281-283.
RemoveClearConnected(t) ==
    /\ pc[t] = "rm_set_connected"
    /\ wii_connected' = 0
    /\ loc' = Observed(0, wii_last_battery)
    /\ last_transition' = "detach"
    /\ Goto(t, "ret")
    /\ UNCHANGED <<channelVars, wii_hid_dev, wii_last_battery, sent, calls_left>>

(***************************************************************************)
(* Specifications.                                                         *)
(***************************************************************************)
\* The steps of wii_raw_event, for reports drawn from reports.
RawEventStep(t, reports) ==
    \/ wii_raw_event(t, reports)
    \/ StoreBattery(t)
    \/ WriteLock(t)
    \/ WriteLoop(t)
    \/ WriteUnlock(t)

\* The steps of device_read.
ReadStep(t) ==
    \/ device_read(t)
    \/ ReadLock(t)
    \/ ReadLoop(t)
    \/ ReadUnlock(t)

\* The steps of the calls that only touch the device state.
DeviceStep(t) ==
    \/ device_ioctl(t)
    \/ IoctlTest(t)
    \/ IoctlSend(t)
    \/ wii_proc_show(t)
    \/ ProcShowConnected(t)
    \/ ProcShowBattery(t)
    \/ wii_probe(t)
    \/ ProbeSetDev(t)
    \/ ProbeSetConnected(t)
    \/ wii_remove(t)
    \/ RemoveClearDev(t)
    \/ RemoveClearConnected(t)

\* Every call of every entry point, in every interleaving.
Next ==
    \E t \in Threads :
        RawEventStep(t, ConcReports) \/ ReadStep(t) \/ DeviceStep(t) \/ Return(t)

Spec == Init /\ [][Next]_vars

\* The calls on the channel alone; the other calls leave channelVars unchanged.
ChanNext ==
    \E t \in Threads : RawEventStep(t, ConcReports) \/ ReadStep(t) \/ Return(t)

ChanSpec == Init /\ [][ChanNext]_vars

\* The calls on the device state alone, with the status reports that set
\* the battery level.
DevNext ==
    \E t \in Threads : RawEventStep(t, StatusReports) \/ DeviceStep(t) \/ Return(t)

DevSpec == Init /\ [][DevNext]_vars

\* One call at a time: a thread steps only while every other thread is idle.
Alone(t) == \A u \in Threads \ {t} : pc[u] = "idle"

SeqNext ==
    \E t \in Threads :
        \/ Alone(t) /\ wii_raw_event(t, Reports)
        \/ Alone(t) /\ StoreBattery(t)
        \/ Alone(t) /\ WriteLock(t)
        \/ Alone(t) /\ WriteLoop(t)
        \/ Alone(t) /\ WriteUnlock(t)
        \/ Alone(t) /\ device_read(t)
        \/ Alone(t) /\ ReadLock(t)
        \/ Alone(t) /\ ReadLoop(t)
        \/ Alone(t) /\ ReadUnlock(t)
        \/ Alone(t) /\ device_ioctl(t)
        \/ Alone(t) /\ IoctlTest(t)
        \/ Alone(t) /\ IoctlSend(t)
        \/ Alone(t) /\ wii_proc_show(t)
        \/ Alone(t) /\ ProcShowConnected(t)
        \/ Alone(t) /\ ProcShowBattery(t)
        \/ Alone(t) /\ wii_probe(t)
        \/ Alone(t) /\ ProbeSetDev(t)
        \/ Alone(t) /\ ProbeSetConnected(t)
        \/ Alone(t) /\ wii_remove(t)
        \/ Alone(t) /\ RemoveClearDev(t)
        \/ Alone(t) /\ RemoveClearConnected(t)
        \/ Alone(t) /\ Return(t)

SeqSpec == Init /\ [][SeqNext]_vars

\* The steps a thread takes inside a call once the call has started.
Continue(t) ==
    \/ WriteLock(t)
    \/ ReadLock(t)
    \/ StoreBattery(t)
    \/ WriteLoop(t)
    \/ WriteUnlock(t)
    \/ ReadLoop(t)
    \/ ReadUnlock(t)
    \/ IoctlTest(t)
    \/ IoctlSend(t)
    \/ Return(t)

\* The driver after module load and a successful wii_probe (lines 271-272).
Attached ==
    /\ circ_buffer = [k \in 0..(CIRC_BUFFER_SIZE - 1) |-> 0]
    /\ head = 0
    /\ tail = 0
    /\ circ_mutex = NoOwner
    /\ wii_hid_dev = HDEV
    /\ wii_connected = 1
    /\ wii_last_battery = BATTERY_UNKNOWN
    /\ pc = [t \in Threads |-> "idle"]
    /\ loc = [t \in Threads |-> IdleLocals]
    /\ accepted = <<>>
    /\ delivered = <<>>
    /\ slot_idx = [k \in 0..(CIRC_BUFFER_SIZE - 1) |-> 0]
    /\ nlocks = 0
    /\ sent = <<>>
    /\ last_transition = "attach"

LiveInit == (Loaded \/ Attached) /\ calls_left = MaxCalls

\* wii_raw_event, device_read and device_ioctl in every interleaving, with
\* the device attached or not.  A thread inside a call is scheduled again:
\* a step it can take for ever (mutex_lock among them, once the mutex stays
\* free) is taken.
LiveNext ==
    \E t \in Threads :
        \/ RawEventStep(t, StatusReports)
        \/ device_read_args(t, LiveReadArgs)
        \/ ReadLock(t)
        \/ ReadLoop(t)
        \/ ReadUnlock(t)
        \/ device_ioctl(t)
        \/ IoctlTest(t)
        \/ IoctlSend(t)
        \/ Return(t)

LiveSpec ==
    /\ LiveInit
    /\ [][LiveNext]_vars
    /\ \A t \in Threads : WF_vars(Continue(t))

\* circ_buffer_write called with one byte at a time and device_read, one
\* call after the other, CIRC_BUFFER_SIZE + 1 calls in all.
ByteInit == Loaded /\ calls_left = CIRC_BUFFER_SIZE + 1

ByteNext ==
    \E t \in Threads :
        \/ Alone(t) /\ circ_buffer_write(t, SingleByteEntries)
        \/ Alone(t) /\ WriteLock(t)
        \/ Alone(t) /\ WriteLoop(t)
        \/ Alone(t) /\ WriteUnlock(t)
        \/ Alone(t) /\ device_read_args(t, ByteReadArgs)
        \/ Alone(t) /\ ReadLock(t)
        \/ Alone(t) /\ ReadLoop(t)
        \/ Alone(t) /\ ReadUnlock(t)
        \/ Alone(t) /\ Return(t)

ByteSpec == ByteInit /\ [][ByteNext]_vars

\* The decode/format step alone, over every report of AllReports.
FmtNext == wii_raw_event(1, AllReports(FmtReportIds))

SpecFmt == Init /\ [][FmtNext]_vars

(***************************************************************************)
(* Properties of the channel.                                              *)
(***************************************************************************)
\* (a - b) mod CIRC_BUFFER_SIZE for cursors a, b.
Distance(a, b) == (a - b + CIRC_BUFFER_SIZE) % CIRC_BUFFER_SIZE

Slot(base, k) == (base + k) % CIRC_BUFFER_SIZE

AcceptedBytes == [k \in 1..Len(accepted) |-> accepted[k].b]

DeliveredBytes == [k \in 1..Len(delivered) |-> delivered[k].b]

IsPrefix(s, u) == Len(s) <= Len(u) /\ \A k \in 1..Len(s) : s[k] = u[k]

InWrite(t) == pc[t] \in {"cw_loop", "cw_unlock"}

InRead(t) == pc[t] \in {"rd_loop", "rd_unlock"}

\* C1: a write call that found f = CIRC_BUFFER_SIZE - 1 - ((head - tail) mod
\* CIRC_BUFFER_SIZE) free slots stores exactly the first min(L, f) bytes of
\* its entry at the old head onward and drops the rest; while it runs, tail
\* and every other slot of the ring, the unread bytes among them, keep the
\* value they had when the call took the mutex.
C1_WriteStoresPrefixDropsRest ==
    \A t \in Threads :
        InWrite(t) =>
            LET at == loc[t].atlock
                L == Len(loc[t].entry)
                unread == Distance(at.head, at.tail)
                f == (CIRC_BUFFER_SIZE - 1) - unread
                n == loc[t].i
            IN  /\ n <= IF L < f THEN L ELSE f
                /\ pc[t] = "cw_unlock" => n = (IF L < f THEN L ELSE f)
                /\ head = Slot(at.head, n)
                /\ tail = at.tail
                /\ \A k \in 0..(n - 1) :
                      circ_buffer[Slot(at.head, k)] = loc[t].entry[k + 1]
                /\ \A k \in 0..(unread - 1) :
                      circ_buffer[Slot(at.tail, k)] = at.circ_buffer[Slot(at.tail, k)]
                /\ \A k \in n..(CIRC_BUFFER_SIZE - 1) :
                      circ_buffer[Slot(at.head, k)] = at.circ_buffer[Slot(at.head, k)]
                /\ Len(accepted) = at.naccepted + n

\* A write that started with unread bytes in the ring, stored some bytes of
\* its entry across the end of the array and dropped the rest.
C1_Witness ==
    \E t \in Threads :
        /\ pc[t] = "cw_unlock"
        /\ loc[t].atlock.head # loc[t].atlock.tail
        /\ 0 < loc[t].i
        /\ loc[t].i < Len(loc[t].entry)
        /\ head < loc[t].atlock.head

\* C2: the channel is FIFO: the k-th byte copied to a consumer is the k-th
\* byte accepted by a write, so the bytes drained so far are a prefix of the
\* bytes accepted so far, and the bytes of one drain call are the next bytes
\* of that sequence, in order.
C2_Fifo ==
    /\ IsPrefix(DeliveredBytes, AcceptedBytes)
    /\ \A k \in 1..Len(delivered) : delivered[k].idx = k
    /\ \A t \in Threads :
          InRead(t) =>
              /\ loc[t].atlock.ndelivered + Len(loc[t].ubuf) <= Len(accepted)
              /\ loc[t].ubuf = SubSeq(AcceptedBytes, loc[t].atlock.ndelivered + 1,
                                      loc[t].atlock.ndelivered + Len(loc[t].ubuf))

\* "Battery: 7\n", 11 bytes, written into the empty channel and returned
\* whole by one drain.
C2_Witness ==
    \E t \in Threads :
        /\ pc[t] = "ret"
        /\ loc[t].op = "read"
        /\ loc[t].ret = 11
        /\ Len(delivered) = 11
        /\ loc[t].ubuf = <<66,97,116,116,101,114,121,58,32,55,10>>
        /\ Len(accepted) = 11

\* C3: write calls are atomic: the bytes of one write call are one contiguous
\* run of the accepted bytes and of the ring, two write calls are never both
\* between mutex_lock and mutex_unlock, and no drain runs its loop (reads
\* head) while a write call is between mutex_lock and mutex_unlock.
C3_WritesAtomic ==
    /\ \A i \in 1..(Len(accepted) - 1) :
          accepted[i].cid # accepted[i + 1].cid =>
              \A k \in (i + 1)..Len(accepted) : accepted[k].cid # accepted[i].cid
    /\ \A t \in Threads :
          InWrite(t) =>
              \A k \in 0..(loc[t].i - 1) :
                  /\ slot_idx[Slot(loc[t].atlock.head, k)] > 0
                  /\ accepted[slot_idx[Slot(loc[t].atlock.head, k)]].cid = loc[t].cid
    /\ \A t, u \in Threads :
          (t # u /\ InWrite(t)) => (~InWrite(u) /\ ~InRead(u))

\* A write call has stored part of its entry while another write call waits
\* for the mutex.
C3_Witness ==
    \E t, u \in Threads :
        /\ t # u
        /\ pc[t] = "cw_loop" /\ loc[t].i > 0
        /\ pc[u] = "cw_lock"

\* The accepted bytes a drain call has copied, as indices into accepted.
DrainedBy(c) ==
    LET mine(r) == r.cid = c
        recs == SelectSeq(delivered, mine)
    IN  [k \in 1..Len(recs) |-> recs[k].idx]

\* C4: no accepted byte is delivered twice, whether to two drain calls or to
\* one, the bytes one drain call copies are consecutive bytes of the accepted
\* sequence, and no other drain or write is between mutex_lock and
\* mutex_unlock while a drain call is.
C4_DrainsDisjointContiguous ==
    /\ \A i, j \in 1..Len(delivered) :
          i # j => delivered[i].idx # delivered[j].idx
    /\ \A c \in 1..nlocks :
          \A k \in 1..(Len(DrainedBy(c)) - 1) :
              DrainedBy(c)[k + 1] = DrainedBy(c)[k] + 1
    /\ \A t, u \in Threads : (t # u /\ InRead(t)) => (~InRead(u) /\ ~InWrite(u))

\* A drain call has copied part of the unread bytes while another drain call
\* waits for the mutex.
C4_Witness ==
    \E t, u \in Threads :
        /\ t # u
        /\ pc[t] = "rd_loop" /\ loc[t].bytes_copied > 0
        /\ pc[u] = "rd_lock"

\* The unread bytes are the accepted bytes not yet consumed, and one slot of
\* the ring always stays free.
UnreadIsAcceptedMinusConsumed ==
    /\ Distance(head, tail) = Len(accepted) - Len(delivered)
    /\ Distance(head, tail) <= CIRC_BUFFER_SIZE - 1

\* C11: in every state (head - tail) mod CIRC_BUFFER_SIZE is the number of
\* bytes accepted by writes minus the number consumed by drains, and is at
\* most CIRC_BUFFER_SIZE - 1; and when the first k - 1 calls were single-byte
\* writes that were all accepted, the k-th single-byte write is accepted if
\* k <= CIRC_BUFFER_SIZE - 1 and dropped if k = CIRC_BUFFER_SIZE.
C11_UnreadCountAndLastSlot ==
    /\ UnreadIsAcceptedMinusConsumed
    /\ \A t \in Threads :
          (pc[t] = "cw_unlock" /\ Len(loc[t].entry) = 1
                /\ loc[t].atlock.naccepted = loc[t].cid - 1) =>
              /\ loc[t].cid <= CIRC_BUFFER_SIZE
              /\ loc[t].i = (IF loc[t].cid <= CIRC_BUFFER_SIZE - 1 THEN 1 ELSE 0)

\* CIRC_BUFFER_SIZE - 1 single-byte writes were accepted, no drain was made,
\* and the next single-byte write has dropped its byte.
C11_Witness ==
    \E t \in Threads :
        /\ pc[t] = "cw_unlock" /\ Len(loc[t].entry) = 1
        /\ loc[t].cid = CIRC_BUFFER_SIZE
        /\ loc[t].atlock.naccepted = CIRC_BUFFER_SIZE - 1
        /\ delivered = <<>>
        /\ loc[t].i = 0
        /\ Distance(head, tail) = CIRC_BUFFER_SIZE - 1

\* C12: a write call that stopped because the ring was full makes the counts
\* observable: its outcome (the return value and the message it logs) carries
\* the number of bytes written and the number of bytes dropped.
C12_WriteReportsCounts ==
    \A t \in Threads :
        (pc[t] = "ret" /\ loc[t].cid > 0 /\ loc[t].i < Len(loc[t].entry)) =>
            \E k \in 1..Len(loc[t].printk) :
                loc[t].printk[k].args = <<loc[t].i, Len(loc[t].entry) - loc[t].i>>

\* C13: a drain call with limit count that took the mutex with k bytes unread
\* copies at most min(count, k) bytes and, when no copy faults, exactly that
\* many; tail is ahead of its old value by the number of bytes copied; head
\* and the ring keep their values; with k = 0 the loop ends at its first test
\* with nothing copied; and the value returned is the number of bytes copied.
C13_DrainReturnsMin ==
    \A t \in Threads :
        /\ InRead(t) =>
              LET at == loc[t].atlock
                  k == Distance(at.head, at.tail)
              IN  /\ loc[t].bytes_copied <= Min(loc[t].count, k)
                  /\ pc[t] = "rd_unlock" => loc[t].bytes_copied = Min(loc[t].count, k)
                  /\ tail = Slot(at.tail, loc[t].bytes_copied)
                  /\ head = at.head
                  /\ circ_buffer = at.circ_buffer
                  /\ Len(loc[t].ubuf) = loc[t].bytes_copied
                  /\ Len(delivered) = at.ndelivered + loc[t].bytes_copied
                  /\ (k = 0 /\ pc[t] = "rd_loop") => ENABLED ReadLoop(t)
        /\ (pc[t] = "ret" /\ loc[t].op = "read" /\ loc[t].ret >= 0) =>
              /\ loc[t].ret = loc[t].bytes_copied
              /\ loc[t].ret = Len(loc[t].ubuf)

\* A drain with limit 3 that found 11 unread bytes has copied 3 of them.
C13_Witness ==
    \E t \in Threads :
        /\ pc[t] = "rd_unlock"
        /\ loc[t].count = 3
        /\ Distance(loc[t].atlock.head, loc[t].atlock.tail) = 11
        /\ loc[t].bytes_copied = 3
        /\ tail = Slot(loc[t].atlock.tail, 3)

\* No thread is inside a call and the mutex is free.
AllReturned == circ_mutex = NoOwner /\ \A t \in Threads : pc[t] = "idle"

\* C14: every call returns and has released circ_mutex when it does: a
\* behaviour makes finitely many calls, so this is to say that from some
\* point on no thread is inside a call and the mutex is free.  Moreover
\* circ_mutex is held only by a thread between mutex_lock and mutex_unlock
\* of circ_buffer_write or device_read, and a thread inside a call can
\* always take its next step unless it is at mutex_lock and the mutex is
\* held (no state is a deadlock, no call waits for a reply or for data).
C14_EveryCallReturns ==
    /\ [](\A t \in Threads :
            /\ circ_mutex = t => (InWrite(t) \/ InRead(t))
            /\ (pc[t] \notin {"idle", "cw_lock", "rd_lock"}) => ENABLED Continue(t)
            /\ (pc[t] \in {"cw_lock", "rd_lock"} /\ circ_mutex = NoOwner) =>
                   ENABLED Continue(t))
    /\ <>[]AllReturned

\* A drain waits for the mutex while a write holds it, with the device
\* attached.
C14_Witness ==
    \E t, u \in Threads :
        /\ pc[t] = "rd_lock"
        /\ pc[u] = "cw_loop" /\ circ_mutex = u
        /\ wii_hid_dev # NULL

\* The step of device_read at which copy_to_user fails (lines 155-157).
CopyFaults(t) == pc[t] = "rd_loop" /\ pc'[t] = "ret"

\* C20: when copy_to_user fails in device_read, the call returns -EFAULT and
\* leaves circ_mutex free; the byte whose copy failed is still the byte at
\* tail, unread, with every later byte; head and the ring are untouched;
\* the bytes copied before it in the same call stay consumed (tail is ahead
\* of its value at mutex_lock by their number), and the value returned is
\* the error, not that number.
C20_CopyFaultKeepsUncopiedBytes ==
    [][\A t \in Threads :
          CopyFaults(t) =>
              LET at == loc[t].atlock
                  n == loc[t].bytes_copied
              IN  /\ loc'[t].ret = 0 - EFAULT
                  /\ loc'[t].ret # n
                  /\ circ_mutex = t /\ circ_mutex' = NoOwner
                  /\ n = loc[t].fault_at - 1
                  /\ tail # head
                  /\ UNCHANGED <<tail, head, circ_buffer, delivered, accepted>>
                  /\ tail = Slot(at.tail, n)
                  /\ Distance(head, tail) = Distance(at.head, at.tail) - n
                  /\ Len(delivered) = at.ndelivered + n
                  /\ loc'[t].ubuf = loc[t].ubuf /\ Len(loc[t].ubuf) = n
      ]_vars

\* A drain has returned -EFAULT after it copied one byte: that byte is
\* consumed, the others are unread and the mutex is free.
C20_Witness ==
    \E t \in Threads :
        /\ pc[t] = "ret" /\ loc[t].op = "read"
        /\ loc[t].ret = 0 - EFAULT
        /\ loc[t].bytes_copied = 1
        /\ Len(delivered) = 1
        /\ Distance(head, tail) = 10
        /\ circ_mutex = NoOwner

(***************************************************************************)
(* Properties of the device state and of the status request.               *)
(***************************************************************************)
\* The DeviceState field a thread is about to read or write, if any.
DeviceAccess(t) ==
    CASE pc[t] = "ev_battery" -> [field |-> "wii_last_battery", write |-> TRUE]
      [] pc[t] = "ps_battery" -> [field |-> "wii_last_battery", write |-> FALSE]
      [] pc[t] = "ps_connected" -> [field |-> "wii_connected", write |-> FALSE]
      [] pc[t] \in {"pb_set_connected", "rm_set_connected"} ->
             [field |-> "wii_connected", write |-> TRUE]
      [] pc[t] \in {"io_test", "io_send"} -> [field |-> "wii_hid_dev", write |-> FALSE]
      [] pc[t] \in {"pb_set_dev", "rm_set_dev"} -> [field |-> "wii_hid_dev", write |-> TRUE]
      [] OTHER -> [field |-> "none", write |-> FALSE]

\* C5: every read and write of wii_connected, wii_last_battery and
\* wii_hid_dev is made by a thread that holds a mutex (circ_mutex is the only
\* one the driver has), so that no two threads are at an access of the same
\* field together when one of the accesses is a write.
C5_DeviceStateUnderMutex ==
    /\ \A t \in Threads :
          DeviceAccess(t).field # "none" => circ_mutex = t
    /\ \A t, u \in Threads :
          (t # u /\ DeviceAccess(t).field # "none"
                 /\ DeviceAccess(t).field = DeviceAccess(u).field) =>
              (~DeviceAccess(t).write /\ ~DeviceAccess(u).write)

\* C6: a status request that no transition overlaps returns -ENODEV exactly
\* when the last completed transition is not a successful wii_probe; then it
\* hands nothing to the transport, and otherwise it hands it exactly one
\* frame, {0x15, 0x00}.
C6_StatusRequestNoDeviceIff ==
    \A t \in Threads :
        (pc[t] = "ret" /\ loc[t].op = "ioctl" /\ loc[t].cmd = 1) =>
            /\ (loc[t].ret = -19) <=> (loc[t].pre.last_transition # "attach")
            /\ (loc[t].ret = -19) => Len(sent) = loc[t].pre.nsent
            /\ (loc[t].ret # -19) =>
                  /\ Len(sent) = loc[t].pre.nsent + 1
                  /\ sent[Len(sent)].frame = <<21, 0>>
                  /\ sent[Len(sent)].hdev # 0

\* A status request made after attach, detach has returned -ENODEV.
C6_Witness ==
    \E t \in Threads :
        /\ pc[t] = "ret" /\ loc[t].op = "ioctl" /\ loc[t].cmd = 1
        /\ loc[t].pre.last_transition = "detach"
        /\ loc[t].ret = -19
        /\ sent = <<>>

\* Thread t takes the step.
Stepped(t) == pc'[t] # pc[t] \/ loc'[t] # loc[t]

\* C15: no step of a device_ioctl call, from the call to its return and
\* whatever it returns, changes wii_last_battery, wii_connected, head, tail
\* or the ring; and a step that changes wii_last_battery, head or the ring is
\* a step of a wii_raw_event call.
C15_StatusRequestFireAndForget ==
    [][/\ \A t \in Threads :
             (Stepped(t) /\ (loc[t].op = "ioctl" \/ loc'[t].op = "ioctl")) =>
                 UNCHANGED <<wii_last_battery, wii_connected, head, tail, circ_buffer>>
       /\ (wii_last_battery' # wii_last_battery \/ head' # head
              \/ circ_buffer' # circ_buffer) =>
             \E t \in Threads : Stepped(t) /\ loc[t].op = "raw_event"
      ]_vars

\* A status request has been sent and has returned while the battery level
\* is known and the ring holds unread bytes.
C15_Witness ==
    \E t \in Threads :
        /\ pc[t] = "ret" /\ loc[t].op = "ioctl" /\ loc[t].cmd = 1
        /\ loc[t].ret = 2
        /\ Len(sent) = 1
        /\ wii_connected = 1
        /\ wii_last_battery = 7
        /\ head # tail

\* C16: the pair (connected, last battery) a wii_proc_show call reports is a
\* pair that wii_connected and wii_last_battery held together at some
\* instant between the start of the call and its return.
C16_ProcShowConsistentPair ==
    \A t \in Threads :
        (pc[t] = "ret" /\ loc[t].op = "proc_show") =>
            <<loc[t].conn, loc[t].batt>> \in loc[t].seen

\* No call has been made since the module was loaded.
NoCallYet == calls_left = MaxCalls /\ \A t \in Threads : pc[t] = "idle"

\* What a successful wii_probe and a wii_remove leave at the step that
\* completes them.
AfterTransition(t) ==
    /\ (pc[t] # "ret" /\ pc'[t] = "ret" /\ loc'[t].op = "probe" /\ loc'[t].ret = 0) =>
           (wii_connected' = 1 /\ wii_hid_dev' = HDEV)
    /\ (pc[t] # "ret" /\ pc'[t] = "ret" /\ loc'[t].op = "remove") =>
           (wii_connected' = 0 /\ wii_hid_dev' = NULL)

\* C17: before any call the device is disconnected, with no handle and
\* wii_last_battery = -1; a successful wii_probe returns with wii_connected
\* = 1 and the handle retained, wii_remove returns with wii_connected = 0 and
\* no handle; no step of a failed wii_probe changes anything; no step of
\* wii_probe or wii_remove changes wii_last_battery, head, tail or the ring;
\* wii_last_battery is -1 or a byte, and once it is a byte it stays one.
C17_AttachDetachFrame ==
    /\ [](NoCallYet => (wii_connected = 0 /\ wii_hid_dev = NULL
                          /\ wii_last_battery = 0 - 1))
    /\ [](wii_last_battery \in {0 - 1} \cup 0..255)
    /\ [][/\ \A t \in Threads :
                /\ AfterTransition(t)
                /\ (Stepped(t) /\ loc'[t].op = "probe" /\ loc'[t].ret # 0) =>
                       (pc'[t] = "ret" /\ UNCHANGED <<channelVars, deviceVars>>)
                /\ (Stepped(t) /\ loc[t].op = "probe" /\ loc[t].ret # 0) =>
                       (pc'[t] = "idle" /\ UNCHANGED <<channelVars, deviceVars>>)
                /\ (Stepped(t) /\ (loc[t].op \in {"probe", "remove"}
                                      \/ loc'[t].op \in {"probe", "remove"})) =>
                       UNCHANGED <<wii_last_battery, head, tail, circ_buffer>>
          /\ (wii_last_battery # 0 - 1) => (wii_last_battery' \in 0..255)
         ]_vars

\* wii_remove has returned after an attach, with a battery level known and
\* unread bytes in the ring.
C17_Witness ==
    \E t \in Threads :
        /\ pc[t] = "ret" /\ loc[t].op = "remove"
        /\ calls_left = 0
        /\ last_transition = "detach"
        /\ wii_connected = 0 /\ wii_hid_dev = NULL
        /\ wii_last_battery = 7
        /\ head # tail

\* C18: every status-request frame handed to the transport was handed over
\* on a handle that wii_hid_dev still retained at that moment: none is sent
\* on a handle that wii_remove has dropped.
C18_NoSendOnDroppedHandle ==
    \A k \in 1..Len(sent) : sent[k].retained

\* A wii_raw_event call on a status report that is past line 249.
PastStoreBattery(t) ==
    /\ loc[t].op = "raw_event"
    /\ Classify(loc[t].data) = "status"
    /\ pc[t] \in {"cw_lock", "cw_loop", "cw_unlock", "ret"}

\* C19: a wii_raw_event call on a status report has stored
\* wii_last_battery before it offers its entry to circ_buffer_write, whether
\* the entry is then stored, cut or dropped whole; so whenever a byte of a
\* "Battery: ..." entry has been accepted by the ring, be it still unread or
\* already returned by a drain, wii_last_battery is a level and not -1.
C19_BatteryKnownBeforeEntry ==
    /\ \A t \in Threads : PastStoreBattery(t) => wii_last_battery \in 0..255
    /\ (\E k \in 1..Len(accepted) : accepted[k].battery) => wii_last_battery \in 0..255
    /\ \A k \in 1..Len(delivered) :
          accepted[delivered[k].idx].battery => wii_last_battery \in 0..255

\* A status report has returned with its entry dropped whole by the full
\* ring, and wii_last_battery holds its level.
C19_Witness ==
    \E t \in Threads :
        /\ pc[t] = "ret" /\ PastStoreBattery(t)
        /\ loc[t].cid > 0
        /\ loc[t].i = 0
        /\ Distance(head, tail) = CIRC_BUFFER_SIZE - 1
        /\ wii_last_battery = loc[t].data[2]

\* The decimal digits of a byte, most significant first.
ByteDigits(n) ==
    IF n >= 100 THEN <<48 + (n \div 100), 48 + ((n \div 10) % 10), 48 + (n % 10)>>
    ELSE IF n >= 10 THEN <<48 + (n \div 10), 48 + (n % 10)>>
    ELSE <<48 + n>>

\* "Battery: <level>\n"
BatteryText(level) == <<66,97,116,116,101,114,121,58,32>> \o ByteDigits(level) \o <<10>>

IsStatusReport(data) == Len(data) >= 2 /\ data[1] = 32

\* C7: a report with raw[0] = 0x20 and length >= 2, of any length and in
\* either connection state, leaves wii_last_battery = raw[1], leaves
\* wii_connected and the handle as they were, and is given to the channel
\* write as "Battery: <raw[1]>\n", never as a button entry.
C7_StatusReportCachesBattery ==
    \A t \in Threads :
        (pc[t] = "ret" /\ loc[t].op = "raw_event" /\ IsStatusReport(loc[t].data)) =>
            /\ wii_last_battery = loc[t].data[2]
            /\ wii_connected = loc[t].pre.wii_connected
            /\ wii_hid_dev = loc[t].pre.wii_hid_dev
            /\ loc[t].entry = BatteryText(loc[t].data[2])
            /\ loc[t].cid > 0
            /\ loc[t].i <= Len(loc[t].entry)
            /\ loc[t].i <= Len(accepted)
            /\ \A k \in 1..loc[t].i :
                  accepted[Len(accepted) - loc[t].i + k].b = loc[t].entry[k]

\* A three-byte status report has been handled while connected.
C7_Witness ==
    \E t \in Threads :
        /\ pc[t] = "ret" /\ loc[t].op = "raw_event"
        /\ loc[t].data = <<32, 255, 1>>
        /\ loc[t].pre.wii_connected = 1
        /\ wii_last_battery = 255
        /\ loc[t].i > 0

\* A report that is neither a status report of length >= 2 nor long enough
\* to hold the button bytes.
IsRejectedReport(data) == Len(data) < 3 /\ ~IsStatusReport(data)

\* C8: a report of length < 3 that is not a status report of length >= 2
\* changes nothing: from the call to its return head, tail, the ring, the
\* connected flag and wii_last_battery keep their values.
C8_ShortReportChangesNothing ==
    [][\A t \in Threads :
          /\ (pc[t] = "idle" /\ pc'[t] # "idle" /\ loc'[t].op = "raw_event"
                /\ IsRejectedReport(loc'[t].data)) =>
                 /\ pc'[t] = "ret"
                 /\ UNCHANGED <<head, tail, circ_buffer, wii_connected, wii_last_battery>>
          /\ (pc[t] # "idle" /\ loc[t].op = "raw_event"
                /\ IsRejectedReport(loc[t].data)) =>
                 /\ pc'[t] = "idle"
                 /\ UNCHANGED <<head, tail, circ_buffer, wii_connected, wii_last_battery>>
      ]_vars

\* A one-byte status report has returned with the device connected, a
\* battery level cached and unread bytes in the ring.
C8_Witness ==
    \E t \in Threads :
        /\ pc[t] = "ret" /\ loc[t].op = "raw_event"
        /\ loc[t].data = <<32>>
        /\ wii_connected = 1
        /\ wii_last_battery # -1
        /\ head # tail

(***************************************************************************)
(* Properties of the formatting.                                           *)
(***************************************************************************)
IsButtonReport(data) == Len(data) >= 3 /\ data[1] # 32

BitIsSet(byte, bit) == (byte \div (2 ^ bit)) % 2 = 1

\* The eleven names in output order: the byte (2 = raw[1], 3 = raw[2]), the
\* bit, and the name as text.
ButtonNames ==
    << [byte |-> 2, bit |-> 0, name |-> <<68,112,97,100,95,82,105,103,104,116>>],  \* Dpad_Right
       [byte |-> 2, bit |-> 1, name |-> <<68,112,97,100,95,76,101,102,116>>],      \* Dpad_Left
       [byte |-> 2, bit |-> 2, name |-> <<68,112,97,100,95,68,111,119,110>>],      \* Dpad_Down
       [byte |-> 2, bit |-> 3, name |-> <<68,112,97,100,95,85,112>>],              \* Dpad_Up
       [byte |-> 2, bit |-> 4, name |-> <<80,108,117,115>>],                       \* Plus
       [byte |-> 2, bit |-> 5, name |-> <<77,105,110,117,115>>],                   \* Minus
       [byte |-> 2, bit |-> 6, name |-> <<72,111,109,101>>],                       \* Home
       [byte |-> 3, bit |-> 0, name |-> <<65>>],                                   \* A
       [byte |-> 3, bit |-> 1, name |-> <<66>>],                                   \* B
       [byte |-> 3, bit |-> 2, name |-> <<49>>],                                   \* 1
       [byte |-> 3, bit |-> 3, name |-> <<50>>] >>                                 \* 2

\* The names whose bit is set, from the k-th on, each followed by a space.
RECURSIVE PressedNames(_, _)
PressedNames(data, k) ==
    IF k > Len(ButtonNames) THEN <<>>
    ELSE (IF BitIsSet(data[ButtonNames[k].byte], ButtonNames[k].bit)
          THEN ButtonNames[k].name \o <<32>> ELSE <<>>)
         \o PressedNames(data, k + 1)

\* "Report: ID=<id>, " then the pressed names, then the newline.
ButtonText(data) ==
    <<82,101,112,111,114,116,58,32,73,68,61>> \o ByteDigits(data[1]) \o <<44,32>>
        \o PressedNames(data, 1) \o <<10>>

\* C9: the entry of a button report is "Report: ID=<raw[0]>, ", then exactly
\* the names whose bit is set, each followed by one space, in the order
\* Dpad_Right, Dpad_Left, Dpad_Down, Dpad_Up, Plus, Minus, Home, A, B, 1, 2,
\* then the newline; bit 7 of raw[1] and bits 4-7 of raw[2] change nothing.
C9_ButtonEntryText ==
    \A t \in Threads :
        (loc[t].op = "raw_event" /\ IsButtonReport(loc[t].data)) =>
            /\ loc[t].entry = ButtonText(loc[t].data)
            /\ loc[t].entry = perform_input_mapping(
                   <<loc[t].data[1], loc[t].data[2] % 128, loc[t].data[3] % 16>>)

\* Every bit of both bytes is set: the entry names the eleven buttons.
C9_Witness ==
    \E t \in Threads :
        /\ loc[t].op = "raw_event"
        /\ loc[t].data = <<49, 255, 255>>
        /\ Len(loc[t].entry) = 79
        /\ pc[t] = "cw_lock"

Contains(s, sub) ==
    \E k \in 0..(Len(s) - Len(sub)) : SubSeq(s, k + 1, k + Len(sub)) = sub

\* C10: the entry of a button report contains "No buttons pressed" exactly
\* when none of the eleven flags is set (raw[1] & 0x7F = 0 and
\* raw[2] & 0x0F = 0).
C10_NoButtonsTextIffNoFlags ==
    \A t \in Threads :
        (loc[t].op = "raw_event" /\ IsButtonReport(loc[t].data)) =>
            (Contains(loc[t].entry,
                      <<78,111,32,98,117,116,116,111,110,115,32,112,114,101,115,115,101,100>>)
             <=> (loc[t].data[2] % 128 = 0 /\ loc[t].data[3] % 16 = 0))

\* C21: the entry of a button report, for every raw[0], raw[1], raw[2], is at
\* most 80 bytes (11 for "Report: ID=", up to 3 digits, 2 for ", ", up to 63
\* for the eleven names, 1 for the newline), which is below the 255-byte
\* limit of the 256-byte buffer; it is the whole text, never truncated, and
\* its last byte is its only newline.
C21_EntryAtMost80OneNewline ==
    \A t \in Threads :
        (loc[t].op = "raw_event" /\ IsButtonReport(loc[t].data)) =>
            LET e == loc[t].entry
            IN  /\ Len(e) <= 80
                /\ Len(e) < MAPPING_OUTPUT_SIZE - 1
                /\ e = ButtonText(loc[t].data)
                /\ e[Len(e)] = 10
                /\ \A k \in 1..(Len(e) - 1) : e[k] # 10

\* A three-digit report id with every flag set: the entry is 80 bytes long.
C21_Witness ==
    \E t \in Threads :
        /\ loc[t].op = "raw_event"
        /\ loc[t].data = <<255, 255, 255>>
        /\ Len(loc[t].entry) = 80
        /\ loc[t].entry[80] = 10
        /\ pc[t] = "cw_lock"

\* C21 as stated: the entry of a button report is at most 70 bytes, is never
\* truncated and ends with exactly one newline.
C21_EntryAtMost70 ==
    \A t \in Threads :
        (loc[t].op = "raw_event" /\ IsButtonReport(loc[t].data)) =>
            LET e == loc[t].entry
            IN  /\ Len(e) <= 70
                /\ e = ButtonText(loc[t].data)
                /\ e[Len(e)] = 10
                /\ \A k \in 1..(Len(e) - 1) : e[k] # 10

=============================================================================
